---- MODULE Spec2Model ----
(***************************************************************************)
(* Model of the PostGIS service layer (app/service.py) over the schema of  *)
(* app/models.py and alembic/versions/0001_init.py.                        *)
(*                                                                         *)
(* The database is the pair of committed tables `features` and             *)
(* `footprints`.  Every connection (SQLAlchemy Session) has a program      *)
(* counter inside process_feature, the writes of its open transaction,     *)
(* and the value its last call returned.  create_feature, get_feature and  *)
(* features_near run one statement and are one step each; process_feature  *)
(* runs three statements and a commit and is one step per statement, so    *)
(* that two connections can interleave.                                    *)
(*                                                                         *)
(* Python values that reach the caller are tagged records (None, Num(n),   *)
(* Bool(b), dicts, lists), so that None, 0 and [] are three values.        *)
(***************************************************************************)
EXTENDS Integers, Sequences, FiniteSets, TLC

\* ------------------------------------------------------------------ bounds
MaxIds == 2        \* size of the pool uuid4() draws from
MaxClock == 3      \* number of now() readings in a run
MaxLon == 1        \* longitudes 0..MaxLon (grid units)
MaxRadius == 1     \* radii 0..MaxRadius (same units)

UUIDs == 1..MaxIds
Lons == 0..MaxLon
Lats == {0}
Radii == 0..MaxRadius
Names == {"Pier A"}
Conns == {1, 2}

\* ------------------------------------------------------- Python-side values
None == [t |-> "None"]
Num(n) == [t |-> "num", v |-> n]
Bool(b) == [t |-> "bool", v |-> b]
List(s) == [t |-> "list", items |-> s]

\* str(uuid): the canonical text of a UUID
Str(u) == <<"uuid", u>>
\* a string that is not the text of any UUID (tests/test_unit.py uses this one)
NotAUuid == <<"non-existent-id", 0>>
IdStrings == {Str(u) : u \in UUIDs} \cup {NotAUuid}
\* the store's cast of a text parameter to the uuid column type
IsUuidText(s) == s[1] = "uuid"
ParseUuid(s) == s[2]

\* datetime.isoformat()
Iso(ts) == <<"iso", ts>>

\* Python truthiness of a number: 0 and 0.0 are falsy
Truthy(n) == n # 0

\* --------------------------------------------------------- spatial engine
ST_MakePoint(lon, lat) == [lon |-> lon, lat |-> lat]
Abs(i) == IF i < 0 THEN -i ELSE i
\* distance between two points, in grid units
ST_Distance(p, q) == Abs(p.lon - q.lon) + Abs(p.lat - q.lat)
\* mutant: the filter keeps only the features exactly at the radius
ST_DWithin_Exact(p, q, r) == ST_Distance(p, q) = r
ST_DWithin(p, q, r) == ST_Distance(p, q) <= r
\* buffer of a point: a 32-gon of the given circumradius; not positive
\* radius gives the empty polygon
ST_Buffer(p, r) == [center |-> p, radius |-> IF r > 0 THEN r ELSE 0]
\* area of the 32-gon: 16 * sin(2*pi/32) * r^2 = 3.1214 r^2, rounded down
ST_Area(poly) == (31214 * poly.radius * poly.radius) \div 10000

\* ------------------------------------------------------------------ state
VARIABLES
    features,    \* committed rows of table features: uuid -> row
    footprints,  \* committed rows of table footprints: feature uuid -> row
    clock,       \* the last reading of now()
    pc,          \* per connection: where it is inside process_feature
    call,        \* per connection: arguments and locals of the running call
    tx,          \* per connection: uncommitted writes of its transaction
    ret,         \* per connection: outcome of its last finished call
    pre,         \* per connection: committed tables when its last call began
    issued,      \* history: the uuids create_feature returned, in order
    succeeded,   \* history: <<feature_id, buffer_m>> of calls that returned True
    raced        \* history: a call passed its existence check while another
                 \* connection's call on that feature had passed its own and not committed

vars == <<features, footprints, clock, pc, call, tx, ret, pre, issued, succeeded, raced>>

\* an exception: its class and the statement that raised it
Error(class, stmt) == <<class, stmt>>
NoError == Error("none", "none")
IsStoreFailure(e) == e[1] = "OperationalError"

NoCall == [feature_id |-> NotAUuid, buffer_m |-> 0, current_time |-> 0, e |-> NoError]
NoTx == [fp |-> None, upd |-> None]
\* outcome of a call: what it returned or that it raised, and what it printed
NoRet == [op |-> "none", args |-> << >>, raised |-> FALSE, val |-> None, printed |-> NoError]
Pending(op, args) ==
    [op |-> op, args |-> args, raised |-> FALSE, val |-> None, printed |-> NoError]
Returned(op, args, v) ==
    [op |-> op, args |-> args, raised |-> FALSE, val |-> v, printed |-> NoError]
Raised(op, args) ==
    [op |-> op, args |-> args, raised |-> TRUE, val |-> None, printed |-> NoError]
Empty == [u \in {} |-> None]

Init ==
    /\ features = Empty
    /\ footprints = Empty
    /\ clock = 0
    /\ pc = [c \in Conns |-> "idle"]
    /\ call = [c \in Conns |-> NoCall]
    /\ tx = [c \in Conns |-> NoTx]
    /\ ret = [c \in Conns |-> NoRet]
    /\ pre = [c \in Conns |-> <<Empty, Empty>>]
    /\ issued = << >>
    /\ succeeded = {}
    /\ raced = FALSE

\* ------------------------------------------------------------ create_feature
FeatureRow(name, lat, lon, ts) ==
    [name |-> name, status |-> "queued", attempts |-> 0,
     created_at |-> ts, updated_at |-> ts, geom |-> ST_MakePoint(lon, lat)]

\* mutant: features has no primary key, a second row with the id replaces the first
InsertFeatureOk_NoKey(u) == TRUE
\* INSERT INTO features: the primary key on id rejects a second row
InsertFeatureOk(u) == u \notin DOMAIN features

\* uuid4(): any value of the pool.  Values never drawn before are interchangeable,
\* so the model draws the least of them, or any value drawn before (a collision).
Uuid4 ==
    {u \in UUIDs : u \in DOMAIN features \/ \A w \in UUIDs \ DOMAIN features : u <= w}

\* mutant: the commit loses the update of the feature row
CommittedFeatures_Dropped(c) == features
\* db.commit(): the writes of the connection's transaction become the committed rows
CommittedFootprints(c) ==
    IF tx[c].fp = None THEN footprints
    ELSE [x \in DOMAIN footprints \cup {tx[c].fp.feature_id} |->
            IF x = tx[c].fp.feature_id THEN tx[c].fp ELSE footprints[x]]

CommittedFeatures(c) ==
    IF tx[c].upd = None THEN features
    ELSE [features EXCEPT ![tx[c].upd.id] = tx[c].upd.row]

CreateFeature(c, name, lat, lon) ==
    /\ pc[c] = "idle"
    /\ clock < MaxClock
    /\ clock' = clock + 1
    /\ \E u \in Uuid4 :
        \/ /\ InsertFeatureOk(u)
           /\ features' = [x \in DOMAIN features \cup {u} |->
                             IF x = u THEN FeatureRow(name, lat, lon, clock')
                             ELSE CommittedFeatures(c)[x]]
           /\ footprints' = CommittedFootprints(c)
           /\ tx' = [tx EXCEPT ![c] = NoTx]
           /\ ret' = [ret EXCEPT ![c] = Returned("create_feature", <<name, lat, lon>>,
                                                 [t |-> "uuid", v |-> u])]
           /\ issued' = Append(issued, u)
        \/ /\ ~InsertFeatureOk(u)
           /\ ret' = [ret EXCEPT ![c] = Raised("create_feature", <<name, lat, lon>>)]
           /\ UNCHANGED <<features, footprints, tx, issued>>
    /\ pre' = [pre EXCEPT ![c] = <<features, footprints>>]
    /\ UNCHANGED <<pc, call, succeeded, raced>>

\* the INSERT or the commit of create_feature fails in the store: not caught
CreateFeatureFails(c, name, lat, lon) ==
    /\ pc[c] = "idle"
    /\ clock < MaxClock
    /\ clock' = clock + 1
    /\ ret' = [ret EXCEPT ![c] = Raised("create_feature", <<name, lat, lon>>)]
    /\ pre' = [pre EXCEPT ![c] = <<features, footprints>>]
    /\ UNCHANGED <<features, footprints, pc, call, tx, issued, succeeded, raced>>

\* ----------------------------------------------------------- process_feature
\* entry: no statement has run yet
ProcessCall(c, fid, r) ==
    /\ pc[c] = "idle"
    /\ clock < MaxClock
    /\ pc' = [pc EXCEPT ![c] = "select"]
    /\ call' = [call EXCEPT ![c] = [feature_id |-> fid, buffer_m |-> r, current_time |-> 0,
                                    e |-> NoError]]
    /\ ret' = [ret EXCEPT ![c] = Pending("process_feature", <<fid, r>>)]
    /\ pre' = [pre EXCEPT ![c] = <<features, footprints>>]
    /\ UNCHANGED <<features, footprints, clock, tx, issued, succeeded, raced>>

\* SELECT id FROM features WHERE id = :feature_id, then `if not result`
SelectFeature(c) ==
    /\ pc[c] = "select"
    /\ \/ /\ ~IsUuidText(call[c].feature_id)       \* the cast to uuid raises
          /\ pc' = [pc EXCEPT ![c] = "except"]
          /\ call' = [call EXCEPT ![c].e = Error("DataError", "select")]
          /\ UNCHANGED <<clock, ret, raced>>
       \/ /\ IsUuidText(call[c].feature_id)
          /\ ParseUuid(call[c].feature_id) \notin DOMAIN features
          /\ pc' = [pc EXCEPT ![c] = "idle"]
          /\ ret' = [ret EXCEPT ![c] = Returned("process_feature", @.args, Bool(FALSE))]
          /\ call' = [call EXCEPT ![c] = NoCall]
          /\ UNCHANGED <<clock, raced>>
       \/ /\ IsUuidText(call[c].feature_id)
          /\ ParseUuid(call[c].feature_id) \in DOMAIN features
          /\ clock < MaxClock
          /\ clock' = clock + 1                     \* current_time = now()
          /\ call' = [call EXCEPT ![c].current_time = clock']
          /\ pc' = [pc EXCEPT ![c] = "insert"]
          /\ raced' = (raced \/ \E d \in Conns \ {c} :
                                    /\ pc[d] \in {"insert", "update", "commit"}
                                    /\ call[d].feature_id = call[c].feature_id)
          /\ UNCHANGED ret
    /\ UNCHANGED <<features, footprints, tx, pre, issued, succeeded>>

\* the row INSERT INTO footprints ... SELECT ... FROM features f builds
FootprintRow(u, r, ts) ==
    [feature_id |-> u, buffer_m |-> r,
     area_m2 |-> ST_Area(ST_Buffer(features[u].geom, r)),
     created_at |-> ts, geom |-> ST_Buffer(features[u].geom, r)]

\* mutant: footprints has no primary key
FootprintKeyFree_NoKey(u) == TRUE
\* primary key of footprints: no committed row with this feature_id
FootprintKeyFree(u) == u \notin DOMAIN footprints

\* mutant: the insert does not wait for an uncommitted row with the same key
FootprintKeyLocked_NoWait(c, u) == FALSE
\* another transaction holds an uncommitted row with this key: the insert waits
FootprintKeyLocked(c, u) ==
    \E d \in Conns \ {c} : tx[d].fp # None /\ tx[d].fp.feature_id = u

InsertFootprint(c) ==
    /\ pc[c] = "insert"
    /\ ~FootprintKeyLocked(c, ParseUuid(call[c].feature_id))
    /\ \/ /\ ~FootprintKeyFree(ParseUuid(call[c].feature_id))   \* unique violation
          /\ pc' = [pc EXCEPT ![c] = "except"]
          /\ call' = [call EXCEPT ![c].e = Error("IntegrityError", "insert")]
          /\ UNCHANGED tx
       \/ /\ FootprintKeyFree(ParseUuid(call[c].feature_id))
          /\ tx' = [tx EXCEPT ![c].fp = FootprintRow(ParseUuid(call[c].feature_id),
                                                     call[c].buffer_m, call[c].current_time)]
          /\ pc' = [pc EXCEPT ![c] = "update"]
          /\ UNCHANGED call
    /\ UNCHANGED <<features, footprints, clock, ret, pre, issued, succeeded, raced>>

\* mutant: the update does not count the attempt
UpdatedRow_NotCounted(row, ts) == [row EXCEPT !.status = "done", !.updated_at = ts]
\* UPDATE features SET status = 'done', updated_at = ..., attempts = attempts + 1
UpdatedRow(row, ts) ==
    [row EXCEPT !.status = "done", !.updated_at = ts, !.attempts = row.attempts + 1]

\* another transaction holds an uncommitted update of this row: the update waits
FeatureRowLocked(c, u) ==
    \E d \in Conns \ {c} : tx[d].upd # None /\ tx[d].upd.id = u

UpdateFeature(c) ==
    /\ pc[c] = "update"
    /\ ~FeatureRowLocked(c, ParseUuid(call[c].feature_id))
    /\ tx' = [tx EXCEPT ![c].upd =
                [id |-> ParseUuid(call[c].feature_id),
                 row |-> UpdatedRow(features[ParseUuid(call[c].feature_id)],
                                    call[c].current_time)]]
    /\ pc' = [pc EXCEPT ![c] = "commit"]
    /\ UNCHANGED <<features, footprints, clock, call, ret, pre, issued, succeeded, raced>>

\* db.commit() makes the transaction's writes the committed ones; return True
Commit(c) ==
    /\ pc[c] = "commit"
    /\ footprints' = CommittedFootprints(c)
    /\ features' = CommittedFeatures(c)
    /\ tx' = [tx EXCEPT ![c] = NoTx]
    /\ pc' = [pc EXCEPT ![c] = "idle"]
    /\ ret' = [ret EXCEPT ![c] = Returned("process_feature", @.args, Bool(TRUE))]
    /\ succeeded' = succeeded \cup {<<call[c].feature_id, call[c].buffer_m>>}
    /\ call' = [call EXCEPT ![c] = NoCall]
    /\ UNCHANGED <<clock, pre, issued, raced>>

\* the statement about to run (select, insert, update or commit) raises
StoreFails(c) ==
    /\ pc[c] \in {"select", "insert", "update", "commit"}
    /\ pc' = [pc EXCEPT ![c] = "except"]
    /\ call' = [call EXCEPT ![c].e = Error("OperationalError", pc[c])]
    /\ UNCHANGED <<features, footprints, clock, tx, ret, pre, issued, succeeded, raced>>

\* mutant: the handler returns without rolling back
Rollback_Skipped(t) == t
\* except Exception: db.rollback(); print(...); return False
Rollback(t) == NoTx

HandleException(c) ==
    /\ pc[c] = "except"
    /\ tx' = [tx EXCEPT ![c] = Rollback(@)]
    /\ pc' = [pc EXCEPT ![c] = "idle"]
    /\ ret' = [ret EXCEPT ![c] = [Returned("process_feature", @.args, Bool(FALSE))
                                     EXCEPT !.printed = call[c].e]]
    /\ call' = [call EXCEPT ![c] = NoCall]
    /\ UNCHANGED <<features, footprints, clock, pre, issued, succeeded, raced>>

\* ---------------------------------------------------------------- get_feature
\* a nullable column of the LEFT JOIN as the Python value of the row
Nullable(present, n) == IF present THEN Num(n) ELSE None

FeatureDict(u) ==
    [t |-> "dict",
     id |-> Str(u),
     name |-> features[u].name,
     status |-> features[u].status,
     attempts |-> features[u].attempts,
     created_at |-> Iso(features[u].created_at),
     updated_at |-> Iso(features[u].updated_at),
     buffer_m |-> Nullable(u \in DOMAIN footprints,
                           IF u \in DOMAIN footprints THEN footprints[u].buffer_m ELSE 0),
     buffer_area_m2 |-> Nullable(u \in DOMAIN footprints,
                                 IF u \in DOMAIN footprints THEN footprints[u].area_m2 ELSE 0)]

GetFeature(c, fid) ==
    /\ pc[c] = "idle"
    /\ \/ /\ ~IsUuidText(fid)                       \* the cast to uuid raises
          /\ ret' = [ret EXCEPT ![c] = Raised("get_feature", <<fid>>)]
       \/ /\ IsUuidText(fid)
          /\ ParseUuid(fid) \notin DOMAIN features
          /\ ret' = [ret EXCEPT ![c] = Returned("get_feature", <<fid>>, None)]
       \/ /\ IsUuidText(fid)
          /\ ParseUuid(fid) \in DOMAIN features
          /\ ret' = [ret EXCEPT ![c] = Returned("get_feature", <<fid>>,
                                                FeatureDict(ParseUuid(fid)))]
    /\ pre' = [pre EXCEPT ![c] = <<features, footprints>>]
    /\ UNCHANGED <<features, footprints, clock, pc, call, tx, issued, succeeded, raced>>

\* -------------------------------------------------------------- features_near
\* WHERE ST_DWithin(f.geom, :point, :radius_m)
NearMatches(q, r) == {u \in DOMAIN features : ST_DWithin(features[u].geom, q, r)}

\* ORDER BY distance_m: any order of the matching rows that ascends in distance
\* (rows at equal distance come in whatever order the store picks)
Ordered(s, q) ==
    \A i, j \in DOMAIN s :
        i < j => ST_Distance(features[s[i]].geom, q) <= ST_Distance(features[s[j]].geom, q)

NearRows(q, r) ==
    {s \in [1..Cardinality(NearMatches(q, r)) -> NearMatches(q, r)] :
        /\ \A i, j \in DOMAIN s : i # j => s[i] # s[j]
        /\ Ordered(s, q)}

\* 'distance_m': float(result.distance_m) if result.distance_m else None
DistanceField(d) == IF Truthy(d) THEN Num(d) ELSE None

NearDict(u, q) ==
    [t |-> "dict",
     id |-> Str(u),
     name |-> features[u].name,
     status |-> features[u].status,
     attempts |-> features[u].attempts,
     created_at |-> Iso(features[u].created_at),
     updated_at |-> Iso(features[u].updated_at),
     buffer_m |-> Nullable(u \in DOMAIN footprints,
                           IF u \in DOMAIN footprints THEN footprints[u].buffer_m ELSE 0),
     buffer_area_m2 |-> Nullable(u \in DOMAIN footprints,
                                 IF u \in DOMAIN footprints THEN footprints[u].area_m2 ELSE 0),
     distance_m |-> DistanceField(ST_Distance(features[u].geom, q))]

\* the lists features_near(lat, lon, radius_m) can return on the committed tables
FeaturesNearResults(lat, lon, radius_m) ==
    {List([i \in DOMAIN rows |-> NearDict(rows[i], ST_MakePoint(lon, lat))]) :
        rows \in NearRows(ST_MakePoint(lon, lat), radius_m)}

FeaturesNear(c, lat, lon, radius_m) ==
    /\ pc[c] = "idle"
    /\ \E res \in FeaturesNearResults(lat, lon, radius_m) :
          ret' = [ret EXCEPT ![c] = Returned("features_near", <<lat, lon, radius_m>>, res)]
    /\ pre' = [pre EXCEPT ![c] = <<features, footprints>>]
    /\ UNCHANGED <<features, footprints, clock, pc, call, tx, issued, succeeded, raced>>

\* ------------------------------------------------------------ specifications
\* one caller on one connection: calls never overlap
Caller == 1

Next ==
    \/ \E name \in Names, lat \in Lats, lon \in Lons : CreateFeature(Caller, name, lat, lon)
    \/ \E name \in Names, lat \in Lats, lon \in Lons : CreateFeatureFails(Caller, name, lat, lon)
    \/ \E fid \in IdStrings, r \in Radii : ProcessCall(Caller, fid, r)
    \/ SelectFeature(Caller)
    \/ InsertFootprint(Caller)
    \/ UpdateFeature(Caller)
    \/ Commit(Caller)
    \/ StoreFails(Caller)
    \/ HandleException(Caller)
    \/ \E fid \in IdStrings : GetFeature(Caller, fid)
    \/ \E lat \in Lats, lon \in Lons, r \in Radii : FeaturesNear(Caller, lat, lon, r)

Spec == Init /\ [][Next]_vars

\* two connections whose process_feature calls interleave statement by statement,
\* on a database where create_feature has already stored n features
ConcInit ==
    /\ \E n \in 1..MaxIds :
          /\ \E name \in Names, lat \in Lats, lon \in Lons :
                features = [u \in 1..n |-> FeatureRow(name, lat, lon, u)]
          /\ clock = n
          /\ issued = [u \in 1..n |-> u]
    /\ footprints = Empty
    /\ pc = [c \in Conns |-> "idle"]
    /\ call = [c \in Conns |-> NoCall]
    /\ tx = [c \in Conns |-> NoTx]
    /\ ret = [c \in Conns |-> NoRet]
    /\ pre = [c \in Conns |-> <<Empty, Empty>>]
    /\ succeeded = {}
    /\ raced = FALSE

\* every connection serves one call
FirstCall(c, fid, r) == ret[c].op = "none" /\ ProcessCall(c, fid, r)

ConcNext ==
    \E c \in Conns :
        \/ \E fid \in IdStrings, r \in Radii : FirstCall(c, fid, r)
        \/ SelectFeature(c)
        \/ InsertFootprint(c)
        \/ UpdateFeature(c)
        \/ Commit(c)
        \/ StoreFails(c)
        \/ HandleException(c)

ConcSpec == ConcInit /\ [][ConcNext]_vars

\* ------------------------------------------------------------------ claims
\* the call connection c made last was `op` and has come back to the caller
Back(c, op) == ret[c].op = op /\ pc[c] = "idle"
ReturnedBool(c, b) == Back(c, "process_feature") /\ ret[c].val = Bool(b)
FeaturesAtCall(c) == pre[c][1]
FootprintsAtCall(c) == pre[c][2]
\* the feature a finished call named existed when the call began
NamedExisting(c) ==
    /\ IsUuidText(ret[c].args[1])
    /\ ParseUuid(ret[c].args[1]) \in DOMAIN FeaturesAtCall(c)
\* what get_feature answers for a processed feature, per the claim
ProcessedAnswer(d, r) ==
    /\ d.t = "dict"
    /\ d.status = "done"
    /\ d.attempts = 1
    /\ d.buffer_m = Num(r)
    /\ d.buffer_area_m2.t = "num"
    /\ d.buffer_area_m2.v > 0

C2_AllOrNothing ==
    \A c \in Conns :
        /\ ReturnedBool(c, FALSE)
             => /\ features = FeaturesAtCall(c)
                /\ footprints = FootprintsAtCall(c)
                /\ tx[c] = NoTx
        /\ ret[c].op = "process_feature" => ~ret[c].raised
        /\ pc[c] = "commit" => tx[c].fp # None /\ tx[c].upd # None
        /\ pc[c] # "idle"
             => features = FeaturesAtCall(c) /\ footprints = FootprintsAtCall(c)

\* C2 witness: a call on a queued feature failed at its commit, after its insert
\* and its update had been executed
C2_Witness ==
    /\ ReturnedBool(Caller, FALSE)
    /\ NamedExisting(Caller)
    /\ ParseUuid(ret[Caller].args[1]) \notin DOMAIN footprints
    /\ ret[Caller].printed = Error("OperationalError", "commit")

\* C3: process_feature on a feature whose status is 'done' returns False on the
\* footprints key conflict (unless the store fails first), and the feature's row
\* and its footprint are what they were.
C3_DoneRejected ==
    \A c \in Conns :
        (/\ Back(c, "process_feature")
         /\ NamedExisting(c)
         /\ FeaturesAtCall(c)[ParseUuid(ret[c].args[1])].status = "done")
            => /\ ret[c].val = Bool(FALSE)
               /\ \/ ret[c].printed = Error("IntegrityError", "insert")
                  \/ /\ IsStoreFailure(ret[c].printed)
                     /\ ret[c].printed[2] \in {"select", "insert"}
               /\ features[ParseUuid(ret[c].args[1])]
                    = FeaturesAtCall(c)[ParseUuid(ret[c].args[1])]
               /\ ParseUuid(ret[c].args[1]) \in DOMAIN footprints
               /\ ParseUuid(ret[c].args[1]) \in DOMAIN FootprintsAtCall(c)
               /\ footprints[ParseUuid(ret[c].args[1])]
                    = FootprintsAtCall(c)[ParseUuid(ret[c].args[1])]

\* C3 witness: a done feature was processed again with another radius and the
\* insert hit the key conflict
C3_Witness ==
    /\ ReturnedBool(Caller, FALSE)
    /\ NamedExisting(Caller)
    /\ FeaturesAtCall(Caller)[ParseUuid(ret[Caller].args[1])].status = "done"
    /\ ret[Caller].printed = Error("IntegrityError", "insert")
    /\ footprints[ParseUuid(ret[Caller].args[1])].buffer_m # ret[Caller].args[2]

\* the query point and radius of a finished features_near call
NearPoint(c) == ST_MakePoint(ret[c].args[2], ret[c].args[1])
NearRadius(c) == ret[c].args[3]
\* the identifiers in a returned list
Ids(l) == {l.items[i].id : i \in DOMAIN l.items}

\* C4 as written: features_near with radius 0 at the exact location of a stored
\* feature returns that feature with distance_m the number 0.
C4_AsWritten ==
    \A c \in Conns :
        (Back(c, "features_near") /\ NearRadius(c) = 0)
            => \A u \in DOMAIN features :
                 features[u].geom = NearPoint(c)
                    => \E i \in DOMAIN ret[c].val.items :
                         /\ ret[c].val.items[i].id = Str(u)
                         /\ ret[c].val.items[i].distance_m = Num(0)

\* C5 as written: features_near returns a list (never None) holding exactly the
\* features within radius_m of the point, one record each, whose distance_m
\* fields are numbers in ascending order.
C5_AsWritten ==
    \A c \in Conns :
        Back(c, "features_near")
            => /\ ~ret[c].raised
               /\ ret[c].val.t = "list"
               /\ Ids(ret[c].val) =
                    {Str(u) : u \in {w \in DOMAIN features :
                        ST_Distance(features[w].geom, NearPoint(c)) <= NearRadius(c)}}
               /\ \A i, j \in DOMAIN ret[c].val.items :
                    i # j => ret[c].val.items[i].id # ret[c].val.items[j].id
               /\ \A i, j \in DOMAIN ret[c].val.items :
                    i < j => /\ ret[c].val.items[i].distance_m.t = "num"
                             /\ ret[c].val.items[j].distance_m.t = "num"
                             /\ ret[c].val.items[i].distance_m.v
                                  <= ret[c].val.items[j].distance_m.v

\* C6: on the same tables and for the same point, the features returned for a
\* radius are among those returned for any larger radius.
C6_MonotoneInRadius ==
    /\ \A lat \in Lats, lon \in Lons :
         LET found == [r \in Radii |-> {Ids(l) : l \in FeaturesNearResults(lat, lon, r)}]
         IN  \A r1 \in Radii, r2 \in Radii :
                r1 <= r2 => \A ids1 \in found[r1], ids2 \in found[r2] : ids1 \subseteq ids2
    /\ \A c \in Conns, r \in Radii :
         (Back(c, "features_near") /\ ~ret[c].raised)
            => \A l \in FeaturesNearResults(ret[c].args[1], ret[c].args[2], r) :
                 /\ r >= NearRadius(c) => Ids(ret[c].val) \subseteq Ids(l)
                 /\ r <= NearRadius(c) => Ids(l) \subseteq Ids(ret[c].val)

\* C6 witness: a search returned a feature, and a larger radius returns more
C6_Witness ==
    /\ Back(Caller, "features_near")
    /\ Ids(ret[Caller].val) # {}
    /\ \E r \in Radii :
         /\ r > NearRadius(Caller)
         /\ \E l \in FeaturesNearResults(ret[Caller].args[1], ret[Caller].args[2], r) :
              /\ Ids(ret[Caller].val) \subseteq Ids(l)
              /\ Ids(ret[Caller].val) # Ids(l)

\* what get_feature answers for a feature that was never processed
QueuedAnswer(d) ==
    /\ d.t = "dict"
    /\ d.status = "queued"
    /\ d.attempts = 0
    /\ d.buffer_m = None
    /\ d.buffer_area_m2 = None

\* C7: a create_feature call that returns has inserted and committed one row and
\* returns a uuid no earlier call returned; the existing features and footprints
\* are as they were; get_feature of a feature not yet processed answers queued,
\* 0 attempts and no buffer fields.
C7_CreateFresh ==
    /\ \A i, j \in DOMAIN issued : i # j => issued[i] # issued[j]
    /\ \A c \in Conns :
         (Back(c, "create_feature") /\ ~ret[c].raised)
            => /\ ret[c].val.t = "uuid"
               /\ ret[c].val.v \in UUIDs
               /\ ret[c].val.v = issued[Len(issued)]
               /\ ret[c].val.v \notin DOMAIN FeaturesAtCall(c)
               /\ DOMAIN features = DOMAIN FeaturesAtCall(c) \cup {ret[c].val.v}
               /\ \A u \in DOMAIN FeaturesAtCall(c) : features[u] = FeaturesAtCall(c)[u]
               /\ footprints = FootprintsAtCall(c)
               /\ QueuedAnswer(FeatureDict(ret[c].val.v))
    /\ \A c \in Conns :
         (/\ Back(c, "get_feature")
          /\ ~ret[c].raised
          /\ ret[c].val # None
          /\ \A r \in Radii : <<ret[c].args[1], r>> \notin succeeded)
            => QueuedAnswer(ret[c].val)

\* C7 witness: the second feature has been created and fetched before processing
C7_Witness ==
    /\ Len(issued) = 2
    /\ Back(Caller, "get_feature")
    /\ ret[Caller].args[1] = Str(issued[2])
    /\ ret[Caller].val # None
    /\ ret[Caller].val.status = "queued"

\* C8 as written: get_feature on an identifier that matches no feature row
\* returns None, raises nothing and changes neither table.
C8_AsWritten ==
    \A c \in Conns :
        (/\ Back(c, "get_feature")
         /\ \A u \in DOMAIN features : Str(u) # ret[c].args[1])
            => /\ ~ret[c].raised
               /\ ret[c].val = None
               /\ features = FeaturesAtCall(c)
               /\ footprints = FootprintsAtCall(c)

\* the two connections' calls have both come back, for the same feature, which
\* was queued when each of them began
BothBack(u) ==
    \A c \in Conns :
        /\ Back(c, "process_feature")
        /\ ret[c].args[1] = Str(u)
        /\ u \in DOMAIN FeaturesAtCall(c)
        /\ FeaturesAtCall(c)[u].status = "queued"
\* the feature carries the footprint of connection c's call, and only that
WonBy(u, c) ==
    /\ u \in DOMAIN footprints
    /\ footprints[u].buffer_m = ret[c].args[2]
    /\ features[u].status = "done"
    /\ features[u].attempts = 1

\* C9 as written: of two racing process_feature calls on a queued feature at most
\* one returns True, and once both are back the feature has the footprint of the
\* call that returned True, status 'done' and attempts 1.
C9_AsWritten ==
    \A u \in UUIDs :
        (raced /\ BothBack(u))
            => /\ ~ \A c \in Conns : ret[c].val = Bool(TRUE)
               /\ \E c \in Conns : ret[c].val = Bool(TRUE) /\ WonBy(u, c)

\* C9 amended: at most one of the two calls returns True, and exactly one does
\* unless a statement of each call that could have won fails in the store; once
\* both are back, if one returned True the feature has that call's footprint,
\* status 'done' and attempts 1, and if none did the feature is still queued and
\* has no footprint.
C9_RaceOutcome ==
    \A u \in UUIDs :
        BothBack(u)
            => /\ ~ \A c \in Conns : ret[c].val = Bool(TRUE)
               /\ \A c \in Conns : ret[c].val = Bool(TRUE) => WonBy(u, c)
               /\ (\A c \in Conns : ret[c].val = Bool(FALSE))
                    => /\ u \notin DOMAIN footprints
                       /\ features[u].status = "queued"
                       /\ features[u].attempts = 0
                       /\ \A c \in Conns : IsStoreFailure(ret[c].printed)
               /\ (\A c \in Conns : ~IsStoreFailure(ret[c].printed))
                    => \E c \in Conns : ret[c].val = Bool(TRUE)

\* C9 witness: both calls passed the existence check before either committed;
\* one returned True and the other lost on the footprints key
C9_Witness ==
    \E u \in UUIDs :
        /\ raced
        /\ BothBack(u)
        /\ \E c \in Conns, d \in Conns :
             /\ ret[c].val = Bool(TRUE)
             /\ ret[d].val = Bool(FALSE)
             /\ ret[d].printed = Error("IntegrityError", "insert")
             /\ ret[c].args[2] # ret[d].args[2]
             /\ WonBy(u, c)

\* the committed tables agree: footprint <=> done <=> one attempt
Consistent ==
    /\ DOMAIN footprints \subseteq DOMAIN features
    /\ \A u \in DOMAIN features :
         /\ features[u].status \in {"queued", "done"}
         /\ features[u].attempts \in {0, 1}
         /\ (u \in DOMAIN footprints) <=> (features[u].status = "done")
         /\ (features[u].status = "done") <=> (features[u].attempts = 1)
\* no step removes a feature, lowers attempts or takes a feature back from done
Monotone ==
    \A u \in DOMAIN features :
        /\ u \in DOMAIN features'
        /\ features'[u].attempts >= features[u].attempts
        /\ features[u].status = "done" => features'[u].status = "done"

\* C10: in every committed state a feature has a footprint iff it is 'done' iff
\* attempts is 1, and is otherwise 'queued' with attempts 0; every footprint
\* belongs to a feature; attempts never decreases and status never leaves 'done'.
C10_Lifecycle == []Consistent /\ [][Monotone]_vars

\* C10 witness: a processed feature stands at one attempt after a further,
\* failed, process_feature call on it
C10_Witness ==
    /\ ReturnedBool(Caller, FALSE)
    /\ NamedExisting(Caller)
    /\ ParseUuid(ret[Caller].args[1]) \in DOMAIN footprints
    /\ features[ParseUuid(ret[Caller].args[1])].attempts = 1

====
